---- MODULE Spec2Model ----
(***************************************************************************)
(* Ethereum-ABI encoding layer of the ledger core                          *)
(*   core/src/types/eth_abi.rs            EncodeCell, Encode, AbiEncode    *)
(*   core/src/ledger/eth_bridge/storage   is_eth_bridge_key, escrow_key    *)
(* together with the collaborators those files call: the ethabi encoder,   *)
(* the keccak hash type and its hex conversions, the signable transform.   *)
(*                                                                         *)
(* Bytes are naturals 0..255, byte strings are sequences of bytes, text is *)
(* a sequence of one-character strings.  Every caller owns its locals.     *)
(***************************************************************************)
EXTENDS Integers, Sequences, FiniteSets, TLC

VARIABLES pc, op, arg, tokens, encoded_data, message, ret

vars == <<pc, op, arg, tokens, encoded_data, message, ret>>

(***************************************************************************)
(* Bounds of the model.                                                    *)
(***************************************************************************)
\* longest top-level Token sequence drawn from the Token universe
MaxTokens == 2
\* longest dynamic string content, in bytes (crosses one 32-byte boundary)
MaxStrLen == 33
\* most validators / voting powers of a validator-set update
MaxValidators == 2
\* most segments of a storage key
MaxSegments == 3
\* bytes of a digest in the model (the program's digest has 32)
HashLen == 2

(***************************************************************************)
(* Byte-string helpers.                                                    *)
(***************************************************************************)
\* one ABI word
WordSize == 32

Zeros(n) == [i \in 1..n |-> 0]

RECURSIVE Flatten(_)
Flatten(ss) == IF ss = <<>> THEN <<>> ELSE Head(ss) \o Flatten(Tail(ss))

RECURSIVE SeqSum(_)
SeqSum(s) == IF s = <<>> THEN 0 ELSE Head(s) + SeqSum(Tail(s))

\* U256 -> [u8; 32] (and u32 -> Word): big-endian, n bytes
RECURSIVE BigEndian(_, _)
BigEndian(v, n) ==
    IF n = 0 THEN <<>> ELSE Append(BigEndian(v \div 256, n - 1), v % 256)

(***************************************************************************)
(* ethabi::Token.  A Token is a record: t the variant and its payload, n  *)
(* a U256 (a natural), b a boolean, v a byte string, ts a Token sequence.  *)
(***************************************************************************)
Token_Uint(n) == [t |-> "Uint", n |-> n]
Token_Int(n) == [t |-> "Int", n |-> n]
Token_Bool(b) == [t |-> "Bool", b |-> b]
Token_Address(a) == [t |-> "Address", v |-> a]
Token_FixedBytes(b) == [t |-> "FixedBytes", v |-> b]
Token_Bytes(b) == [t |-> "Bytes", v |-> b]
Token_String(s) == [t |-> "String", v |-> s]
Token_Array(ts) == [t |-> "Array", ts |-> ts]
Token_FixedArray(ts) == [t |-> "FixedArray", ts |-> ts]
Token_Tuple(ts) == [t |-> "Tuple", ts |-> ts]

\* Token::is_dynamic
RECURSIVE is_dynamic(_)
is_dynamic(token) ==
    CASE token.t \in {"Bytes", "String", "Array"} -> TRUE
      [] token.t \in {"FixedArray", "Tuple"} ->
            \E i \in 1..Len(token.ts) : is_dynamic(token.ts[i])
      [] OTHER -> FALSE

(***************************************************************************)
(* ethabi::encode (encoder.rs of the ethabi crate), on words.              *)
(***************************************************************************)
pad_u32(value) == BigEndian(value, WordSize)

\* number of words of a right-padded byte string
fixed_bytes_len(bytes) == (Len(bytes) + 31) \div 32

fixed_bytes_append(bytes) ==
    [i \in 1..fixed_bytes_len(bytes) |->
        [j \in 1..WordSize |->
            IF 32 * (i - 1) + j <= Len(bytes) THEN bytes[32 * (i - 1) + j] ELSE 0]]

\* "+ 1" because len is also appended
pad_bytes_len(bytes) == fixed_bytes_len(bytes) + 1

pad_bytes_append(bytes) == <<pad_u32(Len(bytes))>> \o fixed_bytes_append(bytes)

\* the words of a token that is no array and no tuple
encode_token_append(token) ==
    CASE token.t = "Address" -> <<Zeros(12) \o token.v>>
      [] token.t = "Bytes" -> pad_bytes_append(token.v)
      [] token.t = "String" -> pad_bytes_append(token.v)
      [] token.t = "FixedBytes" -> fixed_bytes_append(token.v)
      [] token.t = "Int" -> <<BigEndian(token.n, WordSize)>>
      [] token.t = "Uint" -> <<BigEndian(token.n, WordSize)>>
      [] token.t = "Bool" -> <<Zeros(31) \o <<IF token.b THEN 1 ELSE 0>>>>

\* mediate_token: which Mediate variant a token becomes
Mediate(token) ==
    CASE token.t \in {"Bytes", "String"} -> "Prefixed"
      [] token.t = "Array" -> "PrefixedArrayWithLength"
      [] token.t \in {"FixedArray", "Tuple"} ->
            IF is_dynamic(token) THEN "PrefixedArray" ELSE "RawArray"
      [] OTHER -> "Raw"

RECURSIVE head_len(_)
head_len(token) ==
    CASE Mediate(token) = "Raw" ->
            32 * (IF token.t = "FixedBytes" THEN fixed_bytes_len(token.v) ELSE 1)
      [] Mediate(token) = "RawArray" ->
            SeqSum([i \in 1..Len(token.ts) |-> head_len(token.ts[i])])
      [] OTHER -> 32

RECURSIVE tail_len(_)
tail_len(token) ==
    CASE Mediate(token) \in {"Raw", "RawArray"} -> 0
      [] Mediate(token) = "Prefixed" -> 32 * pad_bytes_len(token.v)
      [] Mediate(token) = "PrefixedArray" ->
            SeqSum([i \in 1..Len(token.ts) |->
                        head_len(token.ts[i]) + tail_len(token.ts[i])])
      [] Mediate(token) = "PrefixedArrayWithLength" ->
            32 + SeqSum([i \in 1..Len(token.ts) |->
                            head_len(token.ts[i]) + tail_len(token.ts[i])])

RECURSIVE head_append(_, _)
head_append(token, suffix_offset) ==
    CASE Mediate(token) = "Raw" -> encode_token_append(token)
      [] Mediate(token) = "RawArray" ->
            Flatten([i \in 1..Len(token.ts) |-> head_append(token.ts[i], 0)])
      [] OTHER -> <<pad_u32(suffix_offset)>>

RECURSIVE encode_head_tail_append(_)
RECURSIVE tail_append(_)

tail_append(token) ==
    CASE Mediate(token) \in {"Raw", "RawArray"} -> <<>>
      [] Mediate(token) = "Prefixed" -> encode_token_append(token)
      [] Mediate(token) = "PrefixedArray" -> encode_head_tail_append(token.ts)
      [] Mediate(token) = "PrefixedArrayWithLength" ->
            <<pad_u32(Len(token.ts))>> \o encode_head_tail_append(token.ts)

encode_head_tail_append(mediates) ==
    LET heads_len == SeqSum([i \in 1..Len(mediates) |-> head_len(mediates[i])])
        \* offset of mediate i: heads_len plus the tails before it
        offset(i) == heads_len
                     + SeqSum([j \in 1..(i - 1) |-> tail_len(mediates[j])])
    IN  Flatten([i \in 1..Len(mediates) |-> head_append(mediates[i], offset(i))])
        \o Flatten([i \in 1..Len(mediates) |-> tail_append(mediates[i])])

\* ethabi::encode: the words, flattened to bytes
ethabi_encode(toks) == Flatten(encode_head_tail_append(toks))

(***************************************************************************)
(* types::keccak: the digest type, the hash and the hex conversions.  A    *)
(* computed digest stays symbolic: it is the hash input it was computed    *)
(* from, a sequence of chunks (literal bytes, or the bytes of a digest).   *)
(* A digest parsed from text holds its HashLen bytes.                      *)
(***************************************************************************)
bytes_chunk(b) == [bytes |-> b]
digest_chunk(hash) == [digest |-> hash]

keccak_of(chunks) == [keccak |-> chunks]

\* KeccakHash(pub [u8; N]) built from its bytes
KeccakHash(b) == [bytes |-> b]

\* keccak_hash(bytes: &[u8]) -> KeccakHash
keccak_hash(bytes) == keccak_of(<<bytes_chunk(bytes)>>)

HexUpper == <<"0", "1", "2", "3", "4", "5", "6", "7",
              "8", "9", "A", "B", "C", "D", "E", "F">>
HexLower == <<"0", "1", "2", "3", "4", "5", "6", "7",
              "8", "9", "a", "b", "c", "d", "e", "f">>

\* value of one hex character, -1 for any other character
hex_val(ch) ==
    IF \E i \in 1..16 : HexUpper[i] = ch
    THEN (CHOOSE i \in 1..16 : HexUpper[i] = ch) - 1
    ELSE IF \E i \in 1..16 : HexLower[i] = ch
         THEN (CHOOSE i \in 1..16 : HexLower[i] = ch) - 1
         ELSE -1

Ok(x) == [kind |-> "Ok", hash |-> x]
Err(e) == [kind |-> "Err", error |-> e]

\* Vec::from_hex: odd length, then the first bad character, else the bytes
from_hex(string) ==
    IF Len(string) % 2 # 0 THEN Err("OddLength")
    ELSE IF \E i \in 1..Len(string) : hex_val(string[i]) < 0
         THEN Err("InvalidHexCharacter")
         ELSE Ok([i \in 1..(Len(string) \div 2) |->
                    16 * hex_val(string[2 * i - 1]) + hex_val(string[2 * i])])

\* the hex bytes, however many
KeccakHash_try_from_any_len(string) ==
    LET decoded == from_hex(string)
    IN  IF decoded.kind = "Err" THEN decoded ELSE Ok(KeccakHash(decoded.hash))

\* KeccakHash::try_from(&str): the hex bytes, which must be HashLen many
KeccakHash_try_from(string) ==
    LET decoded == from_hex(string)
    IN  IF decoded.kind = "Err" THEN decoded
        ELSE IF Len(decoded.hash) # HashLen THEN Err("WrongLength")
             ELSE Ok(KeccakHash(decoded.hash))

\* two lower-case hex characters per byte
KeccakHash_to_string_lower(hash) ==
    Flatten([i \in 1..Len(hash.bytes) |->
                <<HexLower[(hash.bytes[i] \div 16) + 1],
                  HexLower[(hash.bytes[i] % 16) + 1]>>])

\* Display for KeccakHash: two upper-case hex characters per byte
KeccakHash_to_string(hash) ==
    Flatten([i \in 1..Len(hash.bytes) |->
                <<HexUpper[(hash.bytes[i] \div 16) + 1],
                  HexUpper[(hash.bytes[i] % 16) + 1]>>])

(***************************************************************************)
(* proto::SignableEthMessage: the hash of the Ethereum signed-message      *)
(* header, "\x19Ethereum Signed Message:\n32", followed by the digest.     *)
(***************************************************************************)
EthMessagePrefix ==
    <<25, 69, 116, 104, 101, 114, 101, 117, 109, 32, 83, 105, 103, 110, 101,
      100, 32, 77, 101, 115, 115, 97, 103, 101, 58, 10, 51, 50>>

SignableEthMessage_as_signable(hash) ==
    keccak_of(<<bytes_chunk(EthMessagePrefix), digest_chunk(hash)>>)

(***************************************************************************)
(* types::eth_abi: EncodeCell and the Encode trait.                        *)
(***************************************************************************)
\* an implementer of Encode<N>: a raw Token array, or a validator-set update
AbiEncode(toks) == [type |-> "AbiEncode", tokens |-> toks]
ValidatorSetArgs(validators, voting_powers, epoch) ==
    [type |-> "ValidatorSetArgs", validators |-> validators,
     voting_powers |-> voting_powers, epoch |-> epoch]

\* a copy that misses the last token
AbiEncode_tokenize_short(self) ==
    SubSeq(self.tokens, 1, Len(self.tokens) - 1)

\* impl Encode<N> for AbiEncode<N>: self.clone()
AbiEncode_tokenize(self) == self.tokens

\* impl Encode<1> for ValidatorSetArgs: one tuple of (address[], uint256[], uint256)
ValidatorSetArgs_tokenize(self) ==
    <<Token_Tuple(<<
        Token_Array([i \in 1..Len(self.validators) |->
                        Token_Address(self.validators[i])]),
        Token_Array([i \in 1..Len(self.voting_powers) |->
                        Token_Uint(self.voting_powers[i])]),
        Token_Uint(self.epoch)>>)>>

\* value.tokenize(), dispatched on the implementer
Encode_tokenize(self) ==
    IF self.type = "AbiEncode" THEN AbiEncode_tokenize(self)
    ELSE ValidatorSetArgs_tokenize(self)

\* the struct literal: the buffer and the compile-time tag
EncodeCell(data, marker) ==
    [kind |-> "EncodeCell", encoded_data |-> data, marker |-> marker]

\* each token encoded on its own and the encodings concatenated
new_encoded_data_each(toks) ==
    Flatten([i \in 1..Len(toks) |-> ethabi_encode(<<toks[i]>>)])

\* the tokens encoded as the members of one tuple
new_encoded_data_wrapped(toks) == ethabi_encode(<<Token_Tuple(toks)>>)

\* EncodeCell::new, its block: ethabi::encode(tokens.as_slice())
new_encoded_data(toks) == ethabi_encode(toks)

\* EncodeCell::new_from: ethabi::encode(&tokens)
new_from_encoded_data(toks) == ethabi_encode(toks)

\* EncodeCell::into_inner
into_inner(self) == self.encoded_data

\* Encode::keccak256, after self.encode(): the hash of the cell's bytes
keccak256_of_cell(cell) == keccak_hash(into_inner(cell))

\* the header followed by what the digest was computed from
signable_of_message_unwrapped(msg) ==
    keccak_of(<<bytes_chunk(EthMessagePrefix)>> \o msg.keccak)

\* Encode::signable_keccak256, after self.keccak256()
signable_of_message(msg) == SignableEthMessage_as_signable(msg)

\* PartialEq for EncodeCell
EncodeCell_eq(self, other) == self.encoded_data = other.encoded_data

\* Ord for [u8]: the first differing byte of the common prefix decides,
\* else the lengths do
slice_cmp(l, r) ==
    LET n == IF Len(l) < Len(r) THEN Len(l) ELSE Len(r)
        diff == {i \in 1..n : l[i] # r[i]}
        first == CHOOSE i \in diff : \A j \in diff : i <= j
    IN  IF diff # {}
        THEN (IF l[first] < r[first] THEN "Less" ELSE "Greater")
        ELSE IF Len(l) < Len(r) THEN "Less"
        ELSE IF Len(l) > Len(r) THEN "Greater"
        ELSE "Equal"

\* the shorter buffer first, then byte by byte
EncodeCell_cmp_shortlex(self, other) ==
    IF Len(self.encoded_data) < Len(other.encoded_data) THEN "Less"
    ELSE IF Len(self.encoded_data) > Len(other.encoded_data) THEN "Greater"
    ELSE slice_cmp(self.encoded_data, other.encoded_data)

\* Ord for EncodeCell
EncodeCell_cmp(self, other) == slice_cmp(self.encoded_data, other.encoded_data)

\* PartialOrd for EncodeCell
EncodeCell_partial_cmp(self, other) ==
    [some |-> slice_cmp(self.encoded_data, other.encoded_data)]

(***************************************************************************)
(* ledger::eth_bridge::storage: keys of the bridge's storage subspace.     *)
(***************************************************************************)
\* the internal address of the Ethereum bridge
ADDRESS == "EthBridge"

AddressSeg(addr) == [seg |-> "AddressSeg", addr |-> addr]
StringSeg(s) == [seg |-> "StringSeg", str |-> s]

\* KeySeg::to_db_key for Address
to_db_key(addr) == AddressSeg(addr)

Key_from(seg) == [segments |-> <<seg>>]
Key_push(key, seg) == [segments |-> Append(key.segments, seg)]

\* token::balance_key(token_addr, owner): token / "balance" / owner
balance_key(token_addr, owner) ==
    Key_push(Key_push(Key_from(to_db_key(token_addr)), StringSeg("balance")),
             to_db_key(owner))

prefix == Key_from(to_db_key(ADDRESS))

escrow_key(nam_addr) == balance_key(nam_addr, ADDRESS)

\* the bridge's address as any segment of the key
is_eth_bridge_key_any_segment(nam_addr, key) ==
    \/ key = escrow_key(nam_addr)
    \/ \E i \in 1..Len(key.segments) : key.segments[i] = to_db_key(ADDRESS)

is_eth_bridge_key(nam_addr, key) ==
    \/ key = escrow_key(nam_addr)
    \/ /\ Len(key.segments) >= 1
       /\ key.segments[1] = to_db_key(ADDRESS)

(***************************************************************************)
(* Inputs.                                                                 *)
(***************************************************************************)
Callers == {"c1", "c2"}

\* "test"
TestStr == <<116, 101, 115, 116>>

\* 0x241D37B7Cf5233b3b0b204321420A86e8f7bfdb5
Validator1 == <<36, 29, 55, 183, 207, 82, 51, 179, 176, 178,
                4, 50, 20, 32, 168, 110, 143, 123, 253, 181>>
\* 0xF0457e703bf0B9dEb1a6003FFD71C77E44575f95
Address1 == <<240, 69, 126, 112, 59, 240, 185, 222, 177, 166,
              0, 63, 253, 113, 199, 126, 68, 87, 95, 149>>

\* a byte string of n bytes, none of them zero
Content(n) == [i \in 1..n |-> 97 + (i % 26)]

StaticTokens ==
    {Token_Uint(42), Token_Int(5), Token_Bool(TRUE), Token_Bool(FALSE),
     Token_Address(Address1), Token_FixedBytes(Content(2))}

WideStaticTokens ==
    {Token_FixedArray(<<Token_Uint(1), Token_Uint(2)>>),
     Token_FixedBytes(Content(33)), Token_FixedBytes(<<>>)}

DynamicTokens ==
    {Token_String(TestStr), Token_Bytes(<<222, 173>>),
     Token_Array(<<Token_Uint(1), Token_Uint(2)>>),
     Token_Array(<<Token_String(TestStr), Token_String(<<>>)>>),
     Token_FixedArray(<<Token_Bytes(<<222, 173>>)>>),
     Token_Tuple(<<Token_String(TestStr), Token_Uint(7)>>)}

TokenUniverse == StaticTokens \cup WideStaticTokens \cup DynamicTokens

SeqsUpTo(S, n) == UNION {[1..k -> S] : k \in 0..n}

\* raw Token arrays: every short sequence over the universe, and a string of
\* every length up to MaxStrLen alone, after a static and before a dynamic
TokenArrays ==
    SeqsUpTo(TokenUniverse, MaxTokens)
    \cup {<<Token_String(Content(l))>> : l \in 0..MaxStrLen}
    \cup {<<Token_Uint(42), Token_String(Content(l))>> : l \in 0..MaxStrLen}
    \cup {<<Token_Bytes(Content(l)), Token_String(TestStr)>> : l \in 0..MaxStrLen}

ValsetValues ==
    {ValidatorSetArgs(vs, ps, e) :
        vs \in SeqsUpTo({Validator1, Address1}, MaxValidators),
        ps \in SeqsUpTo({8828299, 1}, MaxValidators),
        e \in {0, 1}}

\* a validator-set tuple after a static token
ValsetArrays ==
    {<<Token_Uint(42)>> \o ValidatorSetArgs_tokenize(v) : v \in ValsetValues}

Values ==
    {AbiEncode(ts) : ts \in TokenArrays \cup ValsetArrays} \cup ValsetValues

\* what two concurrent callers draw from
ConcValues ==
    {AbiEncode(<<>>), AbiEncode(<<Token_Uint(42)>>),
     AbiEncode(<<Token_Uint(42), Token_String(TestStr)>>),
     AbiEncode(<<Token_Bool(TRUE)>>),
     ValidatorSetArgs(<<Validator1>>, <<8828299>>, 0)}

\* the type T of an implementer: AbiEncode<N>, or ValidatorSetArgs
TypeOf(value) ==
    IF value.type = "AbiEncode"
    THEN [type |-> "AbiEncode", n |-> Len(value.tokens)]
    ELSE [type |-> "ValidatorSetArgs", n |-> 1]

\* the types a caller of new_from asserts
Markers == {[type |-> "ValidatorSetArgs", n |-> 1], [type |-> "AbiEncode", n |-> 1]}

HexAlphabet == {"9", "a", "F", "g"}
HexStrings == SeqsUpTo(HexAlphabet, 2 * HashLen + 1)
ConcHexStrings == {[i \in 1..(2 * HashLen) |-> "F"], [i \in 1..(2 * HashLen) |-> "a"],
                   <<"g">>}

Addresses == {ADDRESS, "nam", "established_1"}
Segments == {AddressSeg(a) : a \in Addresses}
            \cup {StringSeg("balance"), StringSeg("arbitrary key segment")}
Keys == {[segments |-> ss] : ss \in SeqsUpTo(Segments, MaxSegments)}
ConcKeys == {prefix, escrow_key("nam"), Key_from(to_db_key("nam"))}

(***************************************************************************)
(* The callers.  A caller is idle, inside one call (pc names the next      *)
(* statement of it), or done with the call's result in ret.  tokens,       *)
(* encoded_data and message are the locals of the call in progress.        *)
(***************************************************************************)
None == [kind |-> "None"]

Init ==
    /\ pc = [c \in Callers |-> "idle"]
    /\ op = [c \in Callers |-> "none"]
    /\ arg = [c \in Callers |-> None]
    /\ tokens = [c \in Callers |-> <<>>]
    /\ encoded_data = [c \in Callers |-> <<>>]
    /\ message = [c \in Callers |-> None]
    /\ ret = [c \in Callers |-> None]

CanCall(c) == pc[c] = "idle"

\* entering a call: fresh locals, no result yet
Enter(c, o, a) ==
    /\ pc' = [pc EXCEPT ![c] = "tokenize"]
    /\ op' = [op EXCEPT ![c] = o]
    /\ arg' = [arg EXCEPT ![c] = a]
    /\ tokens' = [tokens EXCEPT ![c] = <<>>]
    /\ encoded_data' = [encoded_data EXCEPT ![c] = <<>>]
    /\ message' = [message EXCEPT ![c] = None]
    /\ ret' = [ret EXCEPT ![c] = None]

\* a call that runs in one step and returns result
Return(c, o, a, result) ==
    /\ pc' = [pc EXCEPT ![c] = "done"]
    /\ op' = [op EXCEPT ![c] = o]
    /\ arg' = [arg EXCEPT ![c] = a]
    /\ tokens' = [tokens EXCEPT ![c] = <<>>]
    /\ encoded_data' = [encoded_data EXCEPT ![c] = <<>>]
    /\ message' = [message EXCEPT ![c] = None]
    /\ ret' = [ret EXCEPT ![c] = result]

\* value.encode(): EncodeCell::new(self)
Call_encode(c, values) ==
    /\ CanCall(c)
    /\ \E value \in values : Enter(c, "encode", value)

\* value.keccak256()
Call_keccak256(c, values) ==
    /\ CanCall(c)
    /\ \E value \in values : Enter(c, "keccak256", value)

\* value.signable_keccak256()
Call_signable_keccak256(c, values) ==
    /\ CanCall(c)
    /\ \E value \in values : Enter(c, "signable_keccak256", value)

\* let tokens = value.tokenize();
Step_tokenize(c) ==
    /\ pc[c] = "tokenize"
    /\ tokens' = [tokens EXCEPT ![c] = Encode_tokenize(arg[c])]
    /\ pc' = [pc EXCEPT ![c] = "ethabi"]
    /\ UNCHANGED <<op, arg, encoded_data, message, ret>>

\* one tokens buffer for every caller
shared_tokens(c) == tokens["c1"]

\* the tokens local of caller c's call
own_tokens(c) == tokens[c]

\* ethabi::encode(tokens.as_slice()), then Self { encoded_data, _marker }
Step_new(c) ==
    /\ pc[c] = "ethabi"
    /\ LET data == new_encoded_data(own_tokens(c))
       IN  /\ encoded_data' = [encoded_data EXCEPT ![c] = data]
           /\ IF op[c] = "encode"
              THEN /\ ret' = [ret EXCEPT ![c] = EncodeCell(data, TypeOf(arg[c]))]
                   /\ pc' = [pc EXCEPT ![c] = "done"]
              ELSE /\ ret' = ret
                   /\ pc' = [pc EXCEPT ![c] = "keccak_hash"]
    /\ UNCHANGED <<op, arg, tokens, message>>

\* keccak_hash(self.encode().into_inner().as_slice())
Step_keccak_hash(c) ==
    /\ pc[c] = "keccak_hash"
    /\ LET cell == EncodeCell(encoded_data[c], TypeOf(arg[c]))
           hash == keccak256_of_cell(cell)
       IN  /\ message' = [message EXCEPT ![c] = hash]
           /\ IF op[c] = "keccak256"
              THEN /\ ret' = [ret EXCEPT ![c] = hash]
                   /\ pc' = [pc EXCEPT ![c] = "done"]
              ELSE /\ ret' = ret
                   /\ pc' = [pc EXCEPT ![c] = "as_signable"]
    /\ UNCHANGED <<op, arg, tokens, encoded_data>>

\* SignableEthMessage::as_signable(&message)
Step_as_signable(c) ==
    /\ pc[c] = "as_signable"
    /\ ret' = [ret EXCEPT ![c] = signable_of_message(message[c])]
    /\ pc' = [pc EXCEPT ![c] = "done"]
    /\ UNCHANGED <<op, arg, tokens, encoded_data, message>>

\* EncodeCell::<T>::new_from(tokens), T asserted by the caller
Call_new_from(c, arrays) ==
    /\ CanCall(c)
    /\ \E toks \in arrays, marker \in Markers :
          Return(c, "new_from", [kind |-> "Tokens", tokens |-> toks],
                 EncodeCell(new_from_encoded_data(toks), marker))

HoldsCell(c) == pc[c] = "done" /\ op[c] \in {"encode", "new_from"}

\* cell.into_inner(), on the cell the caller holds
Call_into_inner(c) ==
    /\ HoldsCell(c)
    /\ Return(c, "into_inner", ret[c], [kind |-> "Vec", bytes |-> into_inner(ret[c])])

\* a == b, a.partial_cmp(&b), a.cmp(&b) on the cells c and d hold (one type T)
Call_compare(c, d) ==
    /\ HoldsCell(c)
    /\ HoldsCell(d)
    /\ ret[c].marker = ret[d].marker
    /\ Return(c, "compare", [kind |-> "Cells", a |-> ret[c], b |-> ret[d]],
              [kind |-> "Compared",
               eq |-> EncodeCell_eq(ret[c], ret[d]),
               partial_cmp |-> EncodeCell_partial_cmp(ret[c], ret[d]),
               cmp |-> EncodeCell_cmp(ret[c], ret[d])])

\* KeccakHash::try_from(string)
Call_try_from(c, strings) ==
    /\ CanCall(c)
    /\ \E string \in strings :
          Return(c, "try_from", [kind |-> "Str", str |-> string],
                 KeccakHash_try_from(string))

\* hash.to_string(), on the digest the caller just parsed
Call_to_string(c) ==
    /\ pc[c] = "done"
    /\ op[c] = "try_from"
    /\ ret[c].kind = "Ok"
    /\ Return(c, "to_string",
              [kind |-> "Hash", hash |-> ret[c].hash, parsed_from |-> arg[c].str],
              [kind |-> "String", str |-> KeccakHash_to_string(ret[c].hash)])

\* is_eth_bridge_key(&nam_addr, &key)
Call_is_eth_bridge_key(c, addrs, keys) ==
    /\ CanCall(c)
    /\ \E nam_addr \in addrs, key \in keys :
          Return(c, "is_eth_bridge_key",
                 [kind |-> "Key", nam_addr |-> nam_addr, key |-> key],
                 [kind |-> "Bool", b |-> is_eth_bridge_key(nam_addr, key)])

\* the caller lets go of the result and is free to call again
Drop(c) ==
    /\ pc[c] = "done"
    /\ pc' = [pc EXCEPT ![c] = "idle"]
    /\ op' = [op EXCEPT ![c] = "none"]
    /\ arg' = [arg EXCEPT ![c] = None]
    /\ tokens' = [tokens EXCEPT ![c] = <<>>]
    /\ encoded_data' = [encoded_data EXCEPT ![c] = <<>>]
    /\ message' = [message EXCEPT ![c] = None]
    /\ ret' = [ret EXCEPT ![c] = None]

Step(c) ==
    \/ Drop(c)
    \/ Step_tokenize(c)
    \/ Step_new(c)
    \/ Step_keccak_hash(c)
    \/ Step_as_signable(c)
    \/ Call_into_inner(c)
    \/ Call_to_string(c)

\* one caller, every input
Next ==
    \/ Call_encode("c1", Values)
    \/ Call_keccak256("c1", Values)
    \/ Call_signable_keccak256("c1", Values)
    \/ Call_new_from("c1", TokenArrays)
    \/ Call_try_from("c1", HexStrings)
    \/ Call_is_eth_bridge_key("c1", Addresses, Keys)
    \/ Call_compare("c1", "c1")
    \/ Step("c1")

Spec == Init /\ [][Next]_vars

\* any number of callers interleaved (two here), a few inputs
NextConc ==
    \E c \in Callers :
        \/ Call_encode(c, ConcValues)
        \/ Call_keccak256(c, ConcValues)
        \/ Call_signable_keccak256(c, ConcValues)
        \/ Call_new_from(c, {Encode_tokenize(v) : v \in ConcValues})
        \/ Call_try_from(c, ConcHexStrings)
        \/ Call_is_eth_bridge_key(c, {"nam"}, ConcKeys)
        \/ \E d \in Callers : Call_compare(c, d)
        \/ Step(c)

SpecConc == Init /\ [][NextConc]_vars

(***************************************************************************)
(* What the claims are stated with.                                        *)
(***************************************************************************)
\* the bytes of n, most significant first, no leading zero byte
RECURSIVE Digits256(_)
Digits256(n) == IF n = 0 THEN <<>> ELSE Append(Digits256(n \div 256), n % 256)

\* n as a 32-byte word: big-endian, left-zero-padded
Word(n) == Zeros(32 - Len(Digits256(n))) \o Digits256(n)

\* the i-th 32-byte word of out
WordAt(out, i) == SubSeq(out, 32 * (i - 1) + 1, 32 * i)

PaddedLen(l) == 32 * ((l + 31) \div 32)

\* a token whose head is one word: dynamic, or a single-word static value
Elementary(token) ==
    \/ token.t \in {"Uint", "Int", "Bool", "Address"}
    \/ token.t = "FixedBytes" /\ Len(token.v) \in 1..32

OneWordHead(token) == is_dynamic(token) \/ Elementary(token)

\* the word of a single-word static value
ValueWord(token) ==
    CASE token.t \in {"Uint", "Int"} -> Word(token.n)
      [] token.t = "Bool" -> Zeros(31) \o <<IF token.b THEN 1 ELSE 0>>
      [] token.t = "Address" -> Zeros(12) \o token.v
      [] token.t = "FixedBytes" -> token.v \o Zeros(32 - Len(token.v))

Encoded(c) == pc[c] = "done" /\ op[c] = "encode"

\* out is laid out as N head words, then the tails in head order, every
\* bytes/string tail being its length word and its right-padded content
HeadTailLayout(ts, out) ==
    LET N == Len(ts)
        dyn == {i \in 1..N : is_dynamic(ts[i])}
        Cands == {32 * k : k \in N..(Len(out) \div 32)}
        HasOff(i) == \E off \in Cands : WordAt(out, i) = Word(off)
        Off(i) == CHOOSE off \in Cands : WordAt(out, i) = Word(off)
        After(i) == {j \in dyn : j > i}
        NextOff(i) ==
            IF After(i) = {} THEN Len(out)
            ELSE Off(CHOOSE j \in After(i) : \A k \in After(i) : j <= k)
    IN  /\ Len(out) >= 32 * N
        /\ Len(out) % 32 = 0
        /\ \A i \in dyn : HasOff(i)
        /\ \A i \in dyn : (\A j \in dyn : i <= j) => Off(i) = 32 * N
        /\ \A i, j \in dyn : i < j => Off(i) < Off(j)
        /\ \A i \in dyn :
              ts[i].t \in {"Bytes", "String"} =>
                LET off == Off(i)
                    l == Len(ts[i].v)
                IN  /\ off + 32 + PaddedLen(l) <= Len(out)
                    /\ SubSeq(out, off + 1, off + 32) = Word(l)
                    /\ SubSeq(out, off + 33, off + 32 + l) = ts[i].v
                    /\ SubSeq(out, off + 33 + l, off + 32 + PaddedLen(l))
                          = Zeros(PaddedLen(l) - l)
                    /\ NextOff(i) = off + 32 + PaddedLen(l)

\* C1 as stated: every encoded Token array has the N-word head and the
\* bytes/string tails of HeadTailLayout
C1_AnySequence ==
    \A c \in Callers :
        Encoded(c) /\ arg[c].type = "AbiEncode" =>
            HeadTailLayout(arg[c].tokens, ret[c].encoded_data)

\* C1: every encoded Token array whose static tokens are single-word values
\* starts with N head words; each bytes/string head word is the offset of its
\* tail from the start of the output; the tails follow the head in head
\* order; each tail is the length word L and the content right-zero-padded to
\* a multiple of 32, for every L >= 0; and [Uint(42), String("test")] encodes
\* to word 42, word 0x40, word 4, "test" padded to 32 bytes.
C1_HeadTail ==
    \A c \in Callers :
        Encoded(c) /\ arg[c].type = "AbiEncode" =>
            /\ (\A i \in 1..Len(arg[c].tokens) : OneWordHead(arg[c].tokens[i]))
                  => HeadTailLayout(arg[c].tokens, ret[c].encoded_data)
            /\ arg[c].tokens = <<Token_Uint(42), Token_String(TestStr)>>
                  => ret[c].encoded_data
                        = Word(42) \o Word(64) \o Word(4) \o TestStr \o Zeros(28)

\* an empty string after a static token has been encoded
C1_Witness ==
    \E c \in Callers :
        /\ Encoded(c)
        /\ arg[c] = AbiEncode(<<Token_Uint(42), Token_String(<<>>)>>)
        /\ ret[c].encoded_data = Word(42) \o Word(64) \o Word(0)

\* the bytes of a validator-set update: the tuple's offset, then the tuple's
\* own block with the offsets of its arrays counted from the block's start
ValsetLayout(v) ==
    LET n == Len(v.validators)
        m == Len(v.voting_powers)
    IN  Word(32)
        \o Word(96) \o Word(96 + 32 * (1 + n)) \o Word(v.epoch)
        \o Word(n)
        \o Flatten([i \in 1..n |-> Zeros(12) \o v.validators[i]])
        \o Word(m)
        \o Flatten([i \in 1..m |-> Word(v.voting_powers[i])])

\* C2: a validator-set update encodes to the offset of its tuple, the
\* offsets of the two arrays relative to the start of the tuple's block (not
\* of the output, also when the block starts after another token's word),
\* the epoch, and each array as its element count followed by its elements;
\* one validator, one power and epoch 0 give the 8 words
\* 0x20, 0x60, 0xa0, 0, 1, address, 1, power.
C2_ValsetArgs ==
    \A c \in Callers :
        /\ Encoded(c) /\ arg[c].type = "ValidatorSetArgs" =>
              /\ ret[c].encoded_data = ValsetLayout(arg[c])
              /\ arg[c] = ValidatorSetArgs(<<Validator1>>, <<8828299>>, 0)
                    => ret[c].encoded_data
                          = Word(32) \o Word(96) \o Word(160) \o Word(0)
                            \o Word(1) \o Zeros(12) \o Validator1
                            \o Word(1) \o Zeros(29) \o <<134, 181, 139>>
        /\ Encoded(c) /\ arg[c].type = "AbiEncode" =>
              \A v \in ValsetValues :
                  arg[c].tokens = <<Token_Uint(42)>> \o ValidatorSetArgs_tokenize(v)
                    => ret[c].encoded_data
                          = Word(42) \o Word(64)
                            \o SubSeq(ValsetLayout(v), 33, Len(ValsetLayout(v)))

\* the update of the test has been encoded, to 8 words
C2_Witness ==
    \E c \in Callers :
        /\ Encoded(c)
        /\ arg[c] = ValidatorSetArgs(<<Validator1>>, <<8828299>>, 0)
        /\ Len(ret[c].encoded_data) = 8 * 32

\* C3 as stated: N static Tokens encode to exactly 32*N bytes, the i-th word
\* being the value of the i-th Token
C3_AnyStatic ==
    \A c \in Callers :
        (/\ Encoded(c)
         /\ arg[c].type = "AbiEncode"
         /\ \A i \in 1..Len(arg[c].tokens) : ~is_dynamic(arg[c].tokens[i]))
        => /\ Len(ret[c].encoded_data) = 32 * Len(arg[c].tokens)
           /\ \A i \in 1..Len(arg[c].tokens) :
                 Elementary(arg[c].tokens[i]) =>
                    WordAt(ret[c].encoded_data, i) = ValueWord(arg[c].tokens[i])

\* C3: N Tokens that are integers, booleans, addresses or fixed byte arrays
\* of 1 to 32 bytes encode to exactly 32*N bytes with no tail, the i-th word
\* being the i-th value: an integer big-endian left-zero-padded, a boolean 0
\* or 1 in the lowest byte, an address after 12 zero bytes, a fixed byte
\* array right-zero-padded; a single address encodes to its padded word.
C3_StaticWords ==
    \A c \in Callers :
        (/\ Encoded(c)
         /\ arg[c].type = "AbiEncode"
         /\ \A i \in 1..Len(arg[c].tokens) : Elementary(arg[c].tokens[i]))
        => /\ ret[c].encoded_data
                = Flatten([i \in 1..Len(arg[c].tokens) |->
                              ValueWord(arg[c].tokens[i])])
           /\ Len(ret[c].encoded_data) = 32 * Len(arg[c].tokens)
           /\ arg[c].tokens = <<Token_Address(Address1)>>
                 => ret[c].encoded_data = Zeros(12) \o Address1

\* an address and a fixed byte array have been encoded, to two words
C3_Witness ==
    \E c \in Callers :
        /\ Encoded(c)
        /\ arg[c] = AbiEncode(<<Token_Address(Address1),
                                Token_FixedBytes(Content(2))>>)
        /\ Len(ret[c].encoded_data) = 64

Returned(c, o) == pc[c] = "done" /\ op[c] = o

InCall(c) ==
    \/ pc[c] \in {"ethabi", "keccak_hash", "as_signable"}
    \/ pc[c] = "done" /\ op[c] \in {"encode", "keccak256", "signable_keccak256"}

\* C5: whatever the other callers do meanwhile, a call's tokens are the
\* tokenization of its own value, encode(v) returns the encoding of v's
\* tokens, and two callers that made the same call hold the same result.
C5_Deterministic ==
    /\ \A c \in Callers :
          /\ InCall(c) => tokens[c] = Encode_tokenize(arg[c])
          /\ Returned(c, "encode") =>
                ret[c].encoded_data = ethabi_encode(Encode_tokenize(arg[c]))
          /\ Returned(c, "keccak256") =>
                ret[c] = keccak_hash(ethabi_encode(Encode_tokenize(arg[c])))
    /\ \A c, d \in Callers :
          (/\ pc[c] = "done"
           /\ pc[d] = "done"
           /\ op[c] = op[d]
           /\ op[c] \in {"encode", "keccak256", "signable_keccak256"}
           /\ arg[c] = arg[d])
          => ret[c] = ret[d]

\* one caller holds encode(v) while the other is inside encode of another value
C5_Witness ==
    /\ Returned("c1", "encode")
    /\ arg["c1"] = AbiEncode(<<Token_Uint(42), Token_String(TestStr)>>)
    /\ pc["c2"] = "ethabi"
    /\ arg["c2"] = AbiEncode(<<Token_Bool(TRUE)>>)

\* a is before b byte-lexicographically
LexLess(a, b) ==
    \E k \in 1..Len(b) :
        /\ k - 1 <= Len(a)
        /\ \A j \in 1..(k - 1) : a[j] = b[j]
        /\ (k = Len(a) + 1 \/ a[k] < b[k])

\* C6: for cells a and b of one type, a == b exactly when the buffers are
\* equal, cmp and partial_cmp are the byte-lexicographic comparison of the
\* buffers (consistent with ==), and cells encoded from the same value are
\* equal.
C6_CompareBuffers ==
    /\ \A c \in Callers :
          Returned(c, "compare") =>
            LET a == arg[c].a.encoded_data
                b == arg[c].b.encoded_data
            IN  /\ ret[c].eq <=> (a = b)
                /\ ret[c].cmp = "Less" <=> LexLess(a, b)
                /\ ret[c].cmp = "Greater" <=> LexLess(b, a)
                /\ ret[c].cmp = "Equal" <=> ret[c].eq
                /\ ret[c].partial_cmp = [some |-> ret[c].cmp]
    /\ \A c, d \in Callers :
          Returned(c, "encode") /\ Returned(d, "encode") /\ arg[c] = arg[d]
            => EncodeCell_eq(ret[c], ret[d])

\* a longer buffer has been found less than a shorter one
C6_Witness ==
    \E c \in Callers :
        /\ Returned(c, "compare")
        /\ Len(arg[c].a.encoded_data) > Len(arg[c].b.encoded_data)
        /\ Len(arg[c].b.encoded_data) > 0
        /\ ret[c].cmp = "Less"
        /\ ~ret[c].eq

UpperHexChars == {"0", "1", "2", "3", "4", "5", "6", "7", "8", "9",
                  "A", "B", "C", "D", "E", "F"}
HexChars == UpperHexChars \cup {"a", "b", "c", "d", "e", "f"}

C8_OnlyParsingFails ==
    \A c \in Callers :
        /\ Returned(c, "try_from") =>
              /\ ret[c].kind = "Err" <=>
                    \/ Len(arg[c].str) # 2 * HashLen
                    \/ \E i \in 1..Len(arg[c].str) : arg[c].str[i] \notin HexChars
              /\ ret[c].kind \in {"Ok", "Err"}
              /\ ret[c].kind = "Err" => "hash" \notin DOMAIN ret[c]
              /\ ret[c].kind = "Ok" => Len(ret[c].hash.bytes) = HashLen
        /\ pc[c] = "done" /\ op[c] # "try_from" =>
              \/ "kind" \notin DOMAIN ret[c]
              \/ ret[c].kind \notin {"Err", "None"}

\* a text of the right length with one bad character has been refused
C8_Witness ==
    \E c \in Callers :
        /\ Returned(c, "try_from")
        /\ Len(arg[c].str) = 2 * HashLen
        /\ arg[c].str[2 * HashLen] = "g"
        /\ ret[c].kind = "Err"

\* C9: is_eth_bridge_key is true exactly for the escrow key and for the keys
\* whose first segment is the bridge's address: true for the bare prefix and
\* every key under it, false for every other key that is not the escrow key.
C9_BridgeKeys ==
    \A c \in Callers :
        Returned(c, "is_eth_bridge_key") =>
            LET segs == arg[c].key.segments
                under == Len(segs) >= 1 /\ segs[1] = AddressSeg(ADDRESS)
                escrow == arg[c].key = escrow_key(arg[c].nam_addr)
            IN  /\ ret[c].b <=> (escrow \/ under)
                /\ (Len(segs) >= 1 /\ <<segs[1]>> = prefix.segments) => ret[c].b
                /\ (/\ Len(segs) >= 1
                    /\ segs[1].seg = "AddressSeg"
                    /\ segs[1].addr # ADDRESS
                    /\ ~escrow) => ~ret[c].b

\* a sub-key of another address has been found not to be a bridge key
C9_Witness ==
    \E c \in Callers :
        /\ Returned(c, "is_eth_bridge_key")
        /\ arg[c].key.segments = <<AddressSeg("established_1"),
                                   StringSeg("arbitrary key segment")>>
        /\ ~ret[c].b

====
